---- MODULE Spec2Model ----
(***************************************************************************)
(* Personal-blog backend (FastAPI + SQLAlchemy): users, posts, comments    *)
(* behind bearer-token authentication.                                     *)
(*                                                                         *)
(* Every request handler is an operator from the tables it reads and its   *)
(* inputs to its HTTP response and the tables it leaves behind; the        *)
(* actions apply the handlers to the stored tables.  Time is counted in    *)
(* minutes.                                                                *)
(*                                                                         *)
(*   SpecAuth   registration, login and password change, from empty tables *)
(*   SpecToken  tokens against the clock and the signing secret            *)
(*   SpecConc   registration on concurrent workers                         *)
(*   Spec       posts and comments, for two users holding tokens           *)
(***************************************************************************)
EXTENDS Integers, Sequences, FiniteSets, TLC

VARIABLES
    users,      \* rows of table "users"
    posts,      \* rows of table "posts"
    comments,   \* rows of table "comments"
    tokens,     \* bearer tokens handed out by /auth/token and held by clients
    now,        \* the wall clock, in minutes
    secret,     \* SECRET_KEY of the running process
    workers     \* POST /auth/ requests in flight, one per worker thread

vars == <<users, posts, comments, tokens, now, secret, workers>>

----------------------------------------------------------------------------
(* Bounds of the model *)

MaxUserId == 2

MaxPostId == 2

MaxCommentId == 1

MaxClock == 17

MaxTokens == 2

NumWorkers == 2

----------------------------------------------------------------------------
(* Inputs *)

\* A password is the pair of its first 72 bytes and the bytes after them.
Passwords ==
    { [head |-> "password1", tail |-> ""],
      [head |-> "correct-horse", tail |-> ""],
      [head |-> "seventy-two-bytes", tail |-> "A"],
      [head |-> "seventy-two-bytes", tail |-> "B"] }

Salts == {"s1", "s2"}

EnumRole == {"admin", "user"}

Usernames == {"alice", "bob"}

Emails == {"a@x.com", "b@x.com"}

FirstNames == {"Al", "Bo"}

\* Bodies of POST /auth/ that pass the schema's validation.
CreatUserRequest ==
    [username : Usernames, email : Emails, first_name : FirstNames,
     last_name : {"Doe"}, password : Passwords, role : EnumRole]

SecretKeys == {"k1", "k2"}

ACCESS_TOKEN_EXPIRE_MINUTES == 15

\* SQL NULL in an integer column; every primary key is greater.
NULL == 0

----------------------------------------------------------------------------
(* HTTP responses.  body is the set of rows (or tokens) returned. *)

Response(status, detail, body) ==
    [status |-> status, detail |-> detail, body |-> body]

HTTPException(status, detail) == Response(status, detail, {})

\* Query.first(): the matching row, as a set of at most one row.
First(rows) == IF rows = {} THEN {} ELSE {CHOOSE r \in rows : TRUE}

\* The primary keys an INSERT may assign: above every key of the table
\* (rowid = max + 1, or the next value of a sequence).
NextIds(rows, max) == { i \in 1..max : \A r \in rows : r.id < i }

----------------------------------------------------------------------------
(* passlib's bcrypt context *)

\* bcrypt reads at most the first 72 bytes of the password.
BcryptDigest(salt, password) == <<salt, password.head>>

bcrypt_hash(password, salt) ==
    [salt |-> salt, digest |-> BcryptDigest(salt, password)]

bcrypt_verify(password, hashed) ==
    hashed.digest = BcryptDigest(hashed.salt, password)

----------------------------------------------------------------------------
(* Token service: python-jose HS-signed JWT *)

Claims(token) ==
    [sub |-> token.sub, id |-> token.id, role |-> token.role, exp |-> token.exp]

\* The signature binds the payload to the key.
Sign(claims, key) == <<key, claims>>

create_access_token(username, user_id, role, expire_delta, key, clock) ==
    LET encode == [sub |-> username, id |-> user_id, role |-> role,
                   exp |-> clock + expire_delta]
    IN  [sub |-> encode.sub, id |-> encode.id, role |-> encode.role,
         exp |-> encode.exp, sig |-> Sign(encode, key)]

\* A decode that skips the exp claim (options verify_exp = False).
TokenNeverExpired(token, clock) == FALSE

\* jwt.decode raises ExpiredSignatureError when exp < now.
TokenExpired(token, clock) == token.exp < clock

\* jwt.decode raises JWTError on a bad signature or an expired token.
JwtDecodes(token, key, clock) ==
    /\ token.sig = Sign(Claims(token), key)
    /\ ~TokenExpired(token, clock)

Unauthorized == HTTPException(401, "could not validate user")

get_current_user(token, key, clock) ==
    IF JwtDecodes(token, key, clock)
    THEN IF "sub" \notin DOMAIN token \/ "id" \notin DOMAIN token
         THEN Unauthorized
         ELSE Response(200, "",
                  {[username |-> token.sub, id |-> token.id, role |-> token.role]})
    ELSE Unauthorized

\* The identities of the callers that hold a token the server accepts now.
Callers ==
    UNION { get_current_user(t, secret, now).body : t \in tokens }

----------------------------------------------------------------------------
(* Credential store *)

authenticate_user(U, username, password) ==
    LET user == First({ u \in U : u.username = username })
    IN  { u \in user : bcrypt_verify(password, u.hashed_password) }

\* The existence check without its email arm.
UserConflictByUsername(U, db_user) ==
    \E u \in U : u.username = db_user.username

\* The existence check of create_user.
UserConflict(U, db_user) ==
    \E u \in U : u.username = db_user.username \/ u.email = db_user.email

\* Table users with its primary key alone, username and email not unique.
UsersUniqueById(U) ==
    \A u, v \in U : u.id = v.id => u = v

\* The unique indexes of table users.
UsersUnique(U) ==
    \A u, v \in U :
        (u.id = v.id \/ u.username = v.username \/ u.email = v.email) => u = v

\* db.add + db.commit: the INSERT, refused by the database (IntegrityError,
\* surfacing as 500) when it would break a unique index.
InsertUser(U, db_user, new_id) ==
    LET row == [id |-> new_id, username |-> db_user.username,
                email |-> db_user.email, first_name |-> db_user.first_name,
                last_name |-> db_user.last_name,
                hashed_password |-> db_user.hashed_password,
                role |-> db_user.role]
    IN  IF UsersUnique(U \cup {row})
        THEN [resp |-> Response(201, "", {row}), users |-> U \cup {row}]
        ELSE [resp |-> HTTPException(500, "IntegrityError"), users |-> U]

NewUser(req, salt) ==
    [username |-> req.username, email |-> req.email,
     first_name |-> req.first_name, last_name |-> req.last_name,
     role |-> req.role, hashed_password |-> bcrypt_hash(req.password, salt)]

create_user(U, req, salt, new_id) ==
    LET db_user == NewUser(req, salt)
    IN  IF UserConflict(U, db_user)
        THEN [resp |-> HTTPException(400, "Username already exists"), users |-> U]
        ELSE InsertUser(U, db_user, new_id)

login_for_access_token(U, username, password, key, clock) ==
    LET user == authenticate_user(U, username, password)
    IN  IF user = {}
        THEN HTTPException(401, "Incorrect username or password")
        ELSE Response(200, "bearer",
                 { create_access_token(u.username, u.id, u.role,
                       ACCESS_TOKEN_EXPIRE_MINUTES, key, clock) : u \in user })

read_current_user(U, user) ==
    Response(200, "", First({ u \in U : u.id = user.id }))

\* An UPDATE that lost its WHERE clause.
SetPasswordOfAll(U, user_model, hashed) ==
    { [u EXCEPT !.hashed_password = hashed] : u \in U }

\* user_model.hashed_password = ...; db.add(user_model); db.commit()
SetPassword(U, user_model, hashed) ==
    { IF u = user_model THEN [u EXCEPT !.hashed_password = hashed] ELSE u
      : u \in U }

update_password(U, user, password, new_password, salt) ==
    LET found == First({ u \in U : u.id = user.id })
    IN  IF found = {}
        THEN [resp |-> HTTPException(500, "AttributeError"), users |-> U]
        ELSE LET user_model == CHOOSE u \in found : TRUE
             IN  IF ~bcrypt_verify(password, user_model.hashed_password)
                 THEN [resp |-> HTTPException(401, "Invalid password"),
                       users |-> U]
                 ELSE [resp |-> Response(204, "", {}),
                       users |-> SetPassword(U, user_model,
                                     bcrypt_hash(new_password, salt))]

----------------------------------------------------------------------------
(* Resource repository: posts *)

\* Bodies of POST /posts/ and PUT /posts/{id} that pass validation.
PostCreate ==
    { [title |-> "Hi", content |-> "World"],
      [title |-> "Hello", content |-> "Again"] }

\* Contents of a comment body that pass validation.
CommentCreate == {"nice one", "edited"}

\* OwnedPost without the author filter.
OwnedPostAnyAuthor(P, user, post_id) ==
    First({ p \in P : p.id = post_id })

\* .filter(Post.author_id == user.get("id")).filter(Post.id == post_id).first()
OwnedPost(P, user, post_id) ==
    First({ p \in P : p.author_id = user.id /\ p.id = post_id })

\* .filter(Comment.author_id == user.get("id")).filter(Comment.id == comment_id).first()
OwnedComment(C, user, comment_id) ==
    First({ c \in C : c.author_id = user.id /\ c.id = comment_id })

PostNotFound == HTTPException(404, "Post not found")

CommentNotFound == HTTPException(404, "Comment not found")

read_all_posts(P, user) ==
    Response(200, "", { p \in P : p.author_id = user.id })

\* The parent lookup of create_comment.
ParentPost(P, post_id) == First({ p \in P : p.id = post_id })

\* create_comment looking the parent up among the caller's own posts.
create_comment_on_own_post(P, C, user, content, post_id, new_id, clock) ==
    LET new_post == { p \in ParentPost(P, post_id) : p.author_id = user.id }
        db_comment == [id |-> new_id, content |-> content,
                       author_id |-> user.id, post_id |-> post_id,
                       created_at |-> clock]
    IN  IF new_post = {}
        THEN [resp |-> PostNotFound, comments |-> C]
        ELSE [resp |-> Response(201, "", {db_comment}),
              comments |-> C \cup {db_comment}]

create_comment(P, C, user, content, post_id, new_id, clock) ==
    LET new_post == ParentPost(P, post_id)
        db_comment == [id |-> new_id, content |-> content,
                       author_id |-> user.id, post_id |-> post_id,
                       created_at |-> clock]
    IN  IF new_post = {}
        THEN [resp |-> PostNotFound, comments |-> C]
        ELSE [resp |-> Response(201, "", {db_comment}),
              comments |-> C \cup {db_comment}]

\* The rows of a query in primary-key order, as a sequence.
RECURSIVE ById(_)
ById(rows) ==
    IF rows = {} THEN << >>
    ELSE LET r == CHOOSE x \in rows : \A y \in rows : x.id <= y.id
         IN  <<r>> \o ById(rows \ {r})

\* .offset(skip).limit(limit).all()
Page(rows, skip, limit) ==
    LET s == ById(rows)
    IN  { s[i] : i \in { j \in 1..Len(s) : skip < j /\ j <= skip + limit } }

\* The filter of read_comments.
CommentsFilter(C, user, post_id) ==
    { c \in C : c.author_id = user.id /\ c.id = post_id }

read_comments(C, user, post_id, skip, limit) ==
    Response(200, "", Page(CommentsFilter(C, user, post_id), skip, limit))

\* joinedload(Post.comments): the post with the comments that point at it.
read_post_with_comments(P, C, user, post_id) ==
    LET post == ParentPost(P, post_id)
    IN  IF post = {} THEN PostNotFound
        ELSE Response(200, "",
                 { [post |-> p, comments |-> { c \in C : c.post_id = p.id }]
                   : p \in post })

read_single_post(P, user, post_id) ==
    LET single_post == OwnedPost(P, user, post_id)
    IN  IF single_post # {} THEN Response(200, "", single_post)
        ELSE PostNotFound

create_post(P, user, post, new_id, clock) ==
    LET db_post == [id |-> new_id, title |-> post.title,
                    content |-> post.content, author_id |-> user.id,
                    created_at |-> clock]
    IN  [resp |-> Response(201, "", {db_post}), posts |-> P \cup {db_post}]

\* WritePost forgetting the content.
WritePostTitleOnly(db_post, post) ==
    [db_post EXCEPT !.title = post.title]

\* db_post.title = post.title; db_post.content = post.content
WritePost(db_post, post) ==
    [db_post EXCEPT !.title = post.title, !.content = post.content]

update_post(P, user, post, post_id) ==
    LET found == OwnedPost(P, user, post_id)
    IN  IF found # {}
        THEN LET db_post == CHOOSE p \in found : TRUE
                 updated == WritePost(db_post, post)
             IN  [resp |-> Response(200, "", {updated}),
                  posts |-> (P \ {db_post}) \cup {updated}]
        ELSE [resp |-> PostNotFound, posts |-> P]

\* A relationship with cascade="all, delete": the comments go with the post.
CascadeComments(C, post) ==
    { c \in C : c.post_id # post.id }

\* db.delete(post): Post.comments carries no delete cascade, so the flush
\* keeps the post's comments and sets their post_id to NULL.
OrphanComments(C, post) ==
    { IF c.post_id = post.id THEN [c EXCEPT !.post_id = NULL] ELSE c : c \in C }

delete_post(P, C, user, post_id) ==
    LET found == OwnedPost(P, user, post_id)
    IN  IF found # {}
        THEN LET post == CHOOSE p \in found : TRUE
             IN  [resp |-> Response(204, "", {}), posts |-> P \ {post},
                  comments |-> OrphanComments(C, post)]
        ELSE [resp |-> PostNotFound, posts |-> P, comments |-> C]

----------------------------------------------------------------------------
(* Resource repository: comments *)

read_single_comment(C, user, comment_id) ==
    LET single_comment == OwnedComment(C, user, comment_id)
    IN  IF single_comment # {} THEN Response(200, "", single_comment)
        ELSE CommentNotFound

\* Of the CommentBase body only content is read.
update_comment(C, user, content, comment_id) ==
    LET found == OwnedComment(C, user, comment_id)
    IN  IF found # {}
        THEN LET db_comment == CHOOSE c \in found : TRUE
                 updated == [db_comment EXCEPT !.content = content]
             IN  [resp |-> Response(200, "", {updated}),
                  comments |-> (C \ {db_comment}) \cup {updated}]
        ELSE [resp |-> CommentNotFound, comments |-> C]

delete_comment(C, user, comment_id) ==
    LET found == OwnedComment(C, user, comment_id)
    IN  IF found # {}
        THEN [resp |-> Response(204, "", {}), comments |-> C \ found]
        ELSE [resp |-> CommentNotFound, comments |-> C]

----------------------------------------------------------------------------
(* Requests of the authentication routers, each handled in one step *)

Idle == [pc |-> "idle", req |-> {}, status |-> 0]

CreateUser ==
    \E req \in CreatUserRequest, salt \in Salts,
       new_id \in NextIds(users, MaxUserId) :
        /\ users' = create_user(users, req, salt, new_id).users
        /\ UNCHANGED <<posts, comments, tokens, now, secret, workers>>

Login ==
    \E username \in Usernames, password \in Passwords :
        LET r == login_for_access_token(users, username, password, secret, now)
        IN  /\ Cardinality(tokens \cup r.body) <= MaxTokens
            /\ tokens' = tokens \cup r.body
            /\ UNCHANGED <<users, posts, comments, now, secret, workers>>

ReadCurrentUser ==
    /\ tokens # {}
    /\ \A t \in tokens :
           LET auth == get_current_user(t, secret, now)
           IN  IF auth.status = 401 THEN auth = Unauthorized
               ELSE \A user \in auth.body :
                        read_current_user(users, user).status = 200
    /\ UNCHANGED vars

UpdatePassword ==
    \E user \in Callers, password \in Passwords, new_password \in Passwords,
       salt \in Salts :
        /\ users' = update_password(users, user, password, new_password, salt).users
        /\ UNCHANGED <<posts, comments, tokens, now, secret, workers>>

\* The clock advances.
Tick ==
    /\ now < MaxClock
    /\ now' = now + 1
    /\ UNCHANGED <<users, posts, comments, tokens, secret, workers>>

\* The process is restarted with another SECRET_KEY in its environment.
Restart ==
    \E key \in SecretKeys \ {secret} :
        /\ secret' = key
        /\ UNCHANGED <<users, posts, comments, tokens, now, workers>>

----------------------------------------------------------------------------
(* POST /auth/ on concurrent workers: the existence check and the INSERT
   of one request are separate steps *)

\* Bodies sent by the concurrent clients.
RacingRequests ==
    { req \in CreatUserRequest :
        /\ req.first_name = "Al"
        /\ req.role = "user"
        /\ req.password = [head |-> "password1", tail |-> ""] }

Receive(w) ==
    \E req \in RacingRequests :
        /\ workers[w].pc = "idle"
        /\ workers' = [workers EXCEPT ![w] =
                          [pc |-> "check", req |-> {req}, status |-> 0]]
        /\ UNCHANGED <<users, posts, comments, tokens, now, secret>>

CheckExists(w) ==
    /\ workers[w].pc = "check"
    /\ \E req \in workers[w].req :
        workers' = [workers EXCEPT ![w] =
            IF UserConflict(users, NewUser(req, "s1"))
            THEN [pc |-> "done", req |-> {req}, status |-> 400]
            ELSE [pc |-> "insert", req |-> {req}, status |-> 0]]
    /\ UNCHANGED <<users, posts, comments, tokens, now, secret>>

Commit(w) ==
    /\ workers[w].pc = "insert"
    /\ \E req \in workers[w].req, new_id \in NextIds(users, MaxUserId) :
        LET r == InsertUser(users, NewUser(req, "s1"), new_id)
        IN  /\ users' = r.users
            /\ workers' = [workers EXCEPT ![w] =
                   [pc |-> "done", req |-> {req}, status |-> r.resp.status]]
    /\ UNCHANGED <<posts, comments, tokens, now, secret>>

Respond(w) ==
    /\ workers[w].pc = "done"
    /\ workers' = [workers EXCEPT ![w] = Idle]
    /\ UNCHANGED <<users, posts, comments, tokens, now, secret>>

----------------------------------------------------------------------------
(* Requests of the posts and comments routers.  A read changes nothing,
   whoever the caller and whatever the id. *)

\* Path(gt=0) ids tried by the clients: the ids in use and one beyond.
PostIds == 1..(MaxPostId + 1)

CommentIds == 1..(MaxCommentId + 1)

ReadAllPosts ==
    /\ Callers # {}
    /\ \A user \in Callers : read_all_posts(posts, user).status = 200
    /\ UNCHANGED vars

CreateComment ==
    \E user \in Callers, content \in CommentCreate, post_id \in PostIds,
       new_id \in NextIds(comments, MaxCommentId) :
        /\ comments' =
               create_comment(posts, comments, user, content, post_id,
                              new_id, now).comments
        /\ UNCHANGED <<users, posts, tokens, now, secret, workers>>

ReadComments ==
    /\ Callers # {}
    /\ \A user \in Callers, post_id \in PostIds :
           read_comments(comments, user, post_id, 0, 10).status = 200
    /\ UNCHANGED vars

ReadPostWithComments ==
    /\ Callers # {}
    /\ \A user \in Callers, post_id \in PostIds :
           read_post_with_comments(posts, comments, user, post_id).status
               \in {200, 404}
    /\ UNCHANGED vars

ReadSinglePost ==
    /\ Callers # {}
    /\ \A user \in Callers, post_id \in PostIds :
           read_single_post(posts, user, post_id).status \in {200, 404}
    /\ UNCHANGED vars

CreatePost ==
    \E user \in Callers, post \in PostCreate,
       new_id \in NextIds(posts, MaxPostId) :
        /\ posts' = create_post(posts, user, post, new_id, now).posts
        /\ UNCHANGED <<users, comments, tokens, now, secret, workers>>

UpdatePost ==
    \E user \in Callers, post \in PostCreate, post_id \in PostIds :
        /\ posts' = update_post(posts, user, post, post_id).posts
        /\ UNCHANGED <<users, comments, tokens, now, secret, workers>>

DeletePost ==
    \E user \in Callers, post_id \in PostIds :
        LET r == delete_post(posts, comments, user, post_id)
        IN  /\ posts' = r.posts
            /\ comments' = r.comments
            /\ UNCHANGED <<users, tokens, now, secret, workers>>

ReadSingleComment ==
    /\ Callers # {}
    /\ \A user \in Callers, comment_id \in CommentIds :
           read_single_comment(comments, user, comment_id).status \in {200, 404}
    /\ UNCHANGED vars

UpdateComment ==
    \E user \in Callers, content \in CommentCreate, comment_id \in CommentIds :
        /\ comments' = update_comment(comments, user, content, comment_id).comments
        /\ UNCHANGED <<users, posts, tokens, now, secret, workers>>

DeleteComment ==
    \E user \in Callers, comment_id \in CommentIds :
        /\ comments' = delete_comment(comments, user, comment_id).comments
        /\ UNCHANGED <<users, posts, tokens, now, secret, workers>>

----------------------------------------------------------------------------
(* Specifications *)

\* The tables at startup: create_all leaves them empty.
Empty ==
    /\ users = {}
    /\ posts = {}
    /\ comments = {}
    /\ tokens = {}
    /\ now = 0
    /\ secret = "k1"
    /\ workers = [w \in 1..NumWorkers |-> Idle]

\* alice and bob have registered, in this order.
RegisteredUsers ==
    LET a == [username |-> "alice", email |-> "a@x.com", first_name |-> "Al",
              last_name |-> "Doe", password |-> [head |-> "password1", tail |-> ""],
              role |-> "user"]
        b == [username |-> "bob", email |-> "b@x.com", first_name |-> "Bo",
              last_name |-> "Doe", password |-> [head |-> "correct-horse", tail |-> ""],
              role |-> "admin"]
        U1 == create_user({}, a, "s1", 1).users
    IN  create_user(U1, b, "s2", 2).users

\* ... and both have logged in.
LoggedIn ==
    UNION { login_for_access_token(RegisteredUsers, u, p, "k1", 0).body
            : u \in Usernames, p \in Passwords }

\* The authentication routers on an empty database.
InitAuth == Empty

NextAuth == CreateUser \/ Login \/ ReadCurrentUser \/ UpdatePassword

SpecAuth == InitAuth /\ [][NextAuth]_vars

\* Tokens over time, for two registered users.
InitToken ==
    /\ users = RegisteredUsers
    /\ posts = {}
    /\ comments = {}
    /\ tokens = {}
    /\ now = 0
    /\ secret = "k1"
    /\ workers = [w \in 1..NumWorkers |-> Idle]

NextToken == Login \/ ReadCurrentUser \/ Tick \/ Restart

SpecToken == InitToken /\ [][NextToken]_vars

\* Registration on concurrent workers.
InitConc == Empty

NextConc ==
    \E w \in 1..NumWorkers :
        Receive(w) \/ CheckExists(w) \/ Commit(w) \/ Respond(w)

SpecConc == InitConc /\ [][NextConc]_vars

\* The posts and comments routers, for two registered users holding tokens.
Init ==
    /\ users = RegisteredUsers
    /\ posts = {}
    /\ comments = {}
    /\ tokens = LoggedIn
    /\ now = 0
    /\ secret = "k1"
    /\ workers = [w \in 1..NumWorkers |-> Idle]

Next ==
    \/ ReadAllPosts
    \/ CreateComment
    \/ ReadComments
    \/ ReadPostWithComments
    \/ ReadSinglePost
    \/ CreatePost
    \/ UpdatePost
    \/ DeletePost
    \/ ReadSingleComment
    \/ UpdateComment
    \/ DeleteComment

Spec == Init /\ [][Next]_vars

----------------------------------------------------------------------------
(* Properties of the posts and comments routers, under Spec *)

UnusedPostIds == PostIds \ { p.id : p \in posts }

UnusedCommentIds == CommentIds \ { c.id : c \in comments }

\* C1: get, update and delete of a post or comment by an authenticated
\* caller who is not its author answer exactly as they answer for an id that
\* does not exist, with 404, and leave the posts and comments as they were.
C1_NotOwnedIsNotFound ==
    \A user \in Callers :
        /\ \A p \in posts, absent \in UnusedPostIds :
            p.author_id # user.id =>
                /\ read_single_post(posts, user, p.id).status = 404
                /\ read_single_post(posts, user, p.id)
                       = read_single_post(posts, user, absent)
                /\ \A post \in PostCreate :
                    /\ update_post(posts, user, post, p.id).resp.status = 404
                    /\ update_post(posts, user, post, p.id).resp
                           = update_post(posts, user, post, absent).resp
                    /\ update_post(posts, user, post, p.id).posts = posts
                /\ delete_post(posts, comments, user, p.id).resp.status = 404
                /\ delete_post(posts, comments, user, p.id).resp
                       = delete_post(posts, comments, user, absent).resp
                /\ delete_post(posts, comments, user, p.id).posts = posts
                /\ delete_post(posts, comments, user, p.id).comments = comments
        /\ \A c \in comments, absent \in UnusedCommentIds :
            c.author_id # user.id =>
                /\ read_single_comment(comments, user, c.id).status = 404
                /\ read_single_comment(comments, user, c.id)
                       = read_single_comment(comments, user, absent)
                /\ \A content \in CommentCreate :
                    /\ update_comment(comments, user, content, c.id).resp.status = 404
                    /\ update_comment(comments, user, content, c.id).resp
                           = update_comment(comments, user, content, absent).resp
                    /\ update_comment(comments, user, content, c.id).comments
                           = comments
                /\ delete_comment(comments, user, c.id).resp.status = 404
                /\ delete_comment(comments, user, c.id).resp
                       = delete_comment(comments, user, absent).resp
                /\ delete_comment(comments, user, c.id).comments = comments

\* A caller faces a post and a comment of another author, and is refused.
C1_Witness ==
    \E user \in Callers, p \in posts, c \in comments :
        /\ p.author_id # user.id
        /\ c.author_id # user.id
        /\ delete_post(posts, comments, user, p.id).resp = PostNotFound
        /\ delete_comment(comments, user, c.id).resp = CommentNotFound

\* C4: create_comment on a post id that does not exist answers 404 and
\* stores nothing; on a post that exists, whoever its author is, it answers
\* 201 and stores exactly one new comment, of the caller, on that post.
C4_CreateComment ==
    \A user \in Callers, content \in CommentCreate, post_id \in PostIds,
       new_id \in NextIds(comments, MaxCommentId + 1) :
        LET r == create_comment(posts, comments, user, content, post_id,
                                new_id, now)
            added == r.comments \ comments
        IN  IF \E p \in posts : p.id = post_id
            THEN /\ r.resp.status = 201
                 /\ comments \subseteq r.comments
                 /\ Cardinality(added) = 1
                 /\ \A c \in added :
                        /\ c.author_id = user.id
                        /\ c.post_id = post_id
                        /\ c.content = content
                        /\ r.resp.body = {c}
            ELSE /\ r.resp.status = 404
                 /\ r.comments = comments

\* A stored comment whose author is not the author of its post.
C4_Witness ==
    \E c \in comments, p \in posts :
        /\ c.post_id = p.id
        /\ c.author_id # p.author_id
        /\ UnusedPostIds # {}

\* The posts table after any one request of the caller other.
PostsAfterRequestOf(other) ==
    { create_post(posts, other, post, new_id, now).posts
        : post \in PostCreate, new_id \in NextIds(posts, MaxPostId + 1) }
    \cup { update_post(posts, other, post, post_id).posts
        : post \in PostCreate, post_id \in PostIds }
    \cup { delete_post(posts, comments, other, post_id).posts
        : post_id \in PostIds }
    \cup {posts}

\* C5: read_single_post after create_post returns the created title and
\* content with the caller as author; after update_post by the owner it
\* returns the new title and content; after delete_post by the owner it
\* answers 404; and no request of another caller changes what it returns.
C5_PostRoundTrip ==
    \A user \in Callers :
        /\ \A post \in PostCreate, new_id \in NextIds(posts, MaxPostId + 1) :
            LET r == create_post(posts, user, post, new_id, now)
                got == read_single_post(r.posts, user, new_id)
            IN  /\ r.resp.status = 201
                /\ \A row \in r.resp.body : row.id = new_id
                /\ got.status = 200
                /\ Cardinality(got.body) = 1
                /\ \A row \in got.body :
                       /\ row.title = post.title
                       /\ row.content = post.content
                       /\ row.author_id = user.id
        /\ \A p \in posts :
            p.author_id = user.id =>
                /\ \A post \in PostCreate :
                    LET r == update_post(posts, user, post, p.id)
                        got == read_single_post(r.posts, user, p.id)
                    IN  /\ r.resp.status = 200
                        /\ got.status = 200
                        /\ Cardinality(got.body) = 1
                        /\ \A row \in got.body :
                               /\ row.title = post.title
                               /\ row.content = post.content
                               /\ row.author_id = user.id
                /\ LET r == delete_post(posts, comments, user, p.id)
                   IN  /\ r.resp.status = 204
                       /\ read_single_post(r.posts, user, p.id) = PostNotFound
        /\ \A other \in Callers \ {user}, post_id \in PostIds :
            \A P \in PostsAfterRequestOf(other) :
                read_single_post(P, user, post_id)
                    = read_single_post(posts, user, post_id)

\* Two callers each own a post, and one of them can still create another.
C5_Witness ==
    \E user \in Callers, other \in Callers, p \in posts, q \in posts :
        /\ user # other
        /\ p.author_id = user.id
        /\ q.author_id = other.id
        /\ update_post(posts, user, [title |-> "Hello", content |-> "Again"],
                       p.id).resp.status = 200

\* C6: delete_post by the owner removes that one post and no comment: each
\* comment stored before is stored afterwards with the same id, content and
\* author_id, and its author still reads it with read_single_comment.
C6_DeleteKeepsComments ==
    \A user \in Callers, p \in posts :
        p.author_id = user.id =>
            LET r == delete_post(posts, comments, user, p.id)
            IN  /\ r.posts = posts \ {p}
                /\ Cardinality(r.comments) = Cardinality(comments)
                /\ \A c \in comments :
                    /\ \E d \in r.comments :
                           /\ d.id = c.id
                           /\ d.content = c.content
                           /\ d.author_id = c.author_id
                    /\ \A author \in Callers :
                        author.id = c.author_id =>
                            /\ read_single_comment(r.comments, author, c.id).status
                                   = 200
                            /\ \A d \in read_single_comment(r.comments, author,
                                                            c.id).body :
                                   d.content = c.content

\* A comment has outlived its post.
C6_Witness ==
    \E c \in comments :
        /\ c.post_id = NULL
        /\ \E author \in Callers :
               /\ author.id = c.author_id
               /\ read_single_comment(comments, author, c.id).status = 200

\* C9: read_comments returns the comments of the post post_id: each comment
\* returned has that post_id, and with skip = 0 and at most limit matching
\* comments every comment of the caller on the post is returned.
C9_ReadCommentsOfPost ==
    \A user \in Callers, post_id \in PostIds :
        LET mine == { c \in comments :
                        c.author_id = user.id /\ c.post_id = post_id }
            got == read_comments(comments, user, post_id, 0, 10)
        IN  /\ got.status = 200
            /\ \A c \in got.body : c.post_id = post_id
            /\ Cardinality(mine) <= 10 => mine \subseteq got.body

----------------------------------------------------------------------------
(* Properties of the authentication routers *)

\* C2 (under SpecAuth): a registration whose username or email is that of a
\* stored user is answered 400 whatever its other fields are, and leaves
\* the stored users as they were.
C2_DuplicateRejected ==
    \A req \in CreatUserRequest, salt \in Salts,
       new_id \in NextIds(users, MaxUserId + 1) :
        (\E u \in users : u.username = req.username \/ u.email = req.email) =>
            LET r == create_user(users, req, salt, new_id)
            IN  /\ r.resp.status = 400
                /\ r.users = users

\* A stored user and a request that shares only the email with it.
C2_Witness ==
    \E u \in users, req \in CreatUserRequest :
        /\ req.email = u.email
        /\ req.username # u.username
        /\ req.first_name # u.first_name
        /\ req.role # u.role
        /\ \A v \in users : v.username # req.username
        /\ create_user(users, req, "s1", MaxUserId + 1).resp.status = 400

Identity(u) == [username |-> u.username, id |-> u.id, role |-> u.role]

\* C3 (under SpecToken): a token that login issued expires 15 minutes after
\* its issue; get_current_user accepts it, yielding its user's username, id
\* and role, while the clock is before the expiry, answers 401 "could not
\* validate user" once the clock is past it, and answers 401 under any
\* signing secret other than the one that issued it.
C3_TokenLifetime ==
    /\ \A username \in Usernames, password \in Passwords :
        \A t \in login_for_access_token(users, username, password,
                                        secret, now).body :
            /\ t.exp = now + 15
            /\ t.sub = username
            /\ t.sig[1] = secret
    /\ \A t \in tokens :
        /\ \E u \in users : t.sub = u.username /\ t.id = u.id /\ t.role = u.role
        /\ (now < t.exp /\ secret = t.sig[1]) =>
               get_current_user(t, secret, now)
                   = Response(200, "", {[username |-> t.sub, id |-> t.id,
                                        role |-> t.role]})
        /\ now > t.exp =>
               get_current_user(t, secret, now)
                   = HTTPException(401, "could not validate user")
        /\ secret # t.sig[1] =>
               get_current_user(t, secret, now)
                   = HTTPException(401, "could not validate user")

\* A client holds a token past its expiry, signed with the current secret.
C3_Witness ==
    \E t \in tokens :
        /\ t.exp < now
        /\ t.sig[1] = secret
        /\ get_current_user(t, secret, now).status = 401

\* C7 (under SpecAuth): update_password with a current password that does
\* not match the stored hash answers 401 and changes nothing; with the
\* matching one it replaces the caller's hash alone, after which login with
\* the new password succeeds and login with the old one, when different,
\* answers 401.
C7_UpdatePassword ==
    \A user \in Callers, password \in Passwords, new_password \in Passwords,
       salt \in Salts :
        \A u \in { x \in users : x.id = user.id } :
            LET r == update_password(users, user, password, new_password, salt)
            IN  IF ~bcrypt_verify(password, u.hashed_password)
                THEN /\ r.resp.status = 401
                     /\ r.users = users
                ELSE /\ r.resp.status = 204
                     /\ users \ {u} \subseteq r.users
                     /\ Cardinality(r.users) = Cardinality(users)
                     /\ login_for_access_token(r.users, u.username, new_password,
                                               secret, now).status = 200
                     /\ password # new_password =>
                            login_for_access_token(r.users, u.username, password,
                                                   secret, now).status = 401

\* C8 (under SpecAuth): no step removes a stored user or changes its id,
\* username, email, names or role; a step changes a stored user's
\* hashed_password only as update_password called with that user's identity.
C8_UsersOnlyGrow ==
    [][ \A u \in users :
            \E v \in users' :
                /\ v.id = u.id
                /\ v.username = u.username
                /\ v.email = u.email
                /\ v.first_name = u.first_name
                /\ v.last_name = u.last_name
                /\ v.role = u.role
                /\ v.hashed_password # u.hashed_password =>
                       /\ Identity(u) \in Callers
                       /\ \E password \in Passwords, new_password \in Passwords,
                             salt \in Salts :
                              LET r == update_password(users, Identity(u),
                                           password, new_password, salt)
                              IN  /\ r.resp.status = 204
                                  /\ users' = r.users
      ]_vars

\* Two users are stored, one holds a token, the other has never logged in.
C8_Witness ==
    \E u \in users, v \in users :
        /\ u # v
        /\ Identity(u) \in Callers
        /\ Identity(v) \notin Callers
        /\ update_password(users, Identity(u),
               [head |-> "password1", tail |-> ""],
               [head |-> "correct-horse", tail |-> ""], "s2").resp.status = 204

\* C10 (under SpecConc): whatever the interleaving of concurrent create_user
\* requests, no two stored users share a username or an email, and of the
\* registrations of one username at most one is answered 201.
C10_UniqueUnderRaces ==
    /\ \A u, v \in users :
        u # v => (u.username # v.username /\ u.email # v.email /\ u.id # v.id)
    /\ \A w \in 1..NumWorkers :
        workers[w].status = 201 =>
            \A req \in workers[w].req :
                /\ Cardinality({ u \in users : u.username = req.username }) = 1
                /\ \A x \in 1..NumWorkers :
                    (x # w /\ workers[x].status = 201) =>
                        \A other \in workers[x].req :
                            other.username # req.username

\* A request passed the existence check and then lost the INSERT to another.
C10_Witness ==
    \E w \in 1..NumWorkers, x \in 1..NumWorkers :
        /\ workers[w].status = 500
        /\ workers[x].status = 201
        /\ \E req \in workers[w].req :
               \E u \in users : u.username = req.username

====
